---- MODULE Spec2Model ----
(***************************************************************************)
(* A model of youtube_transcript's FileSplitter                            *)
(* (src/youtube_transcript/utils/file_splitter.py).                        *)
(*                                                                         *)
(* Text is a sequence of characters; a character is a one-element string   *)
(* name.  Euro stands for U+20AC, a character of three UTF-8 bytes; every   *)
(* other character of the alphabet is ASCII (one byte).                    *)
(***************************************************************************)
EXTENDS Integers, Sequences, FiniteSets, TLC

VARIABLES
    content,           \* split_file: the text read from the input file
    max_chars,         \* FileSplitter.max_chars
    max_bytes,         \* FileSplitter.max_bytes
    pc,                \* position in split_file / _create_chunks
    sections,          \* _create_chunks: the sections not yet visited
    split_sections,    \* _create_chunks: sub-sections of the current oversized section not yet visited
    chunks,            \* _create_chunks: chunks
    current_chunk,     \* _create_chunks: current_chunk
    current_size,      \* _create_chunks: current_size
    current_length,    \* _create_chunks: current_length
    todo_chunks,       \* _create_chunks: chunks not yet visited by the optimization loop
    optimized_chunks,  \* _create_chunks: optimized_chunks
    temp_chunk,        \* _create_chunks: temp_chunk
    temp_size,         \* _create_chunks: temp_size
    temp_length,       \* _create_chunks: temp_length
    result,            \* the list _create_chunks returned
    returned,          \* which return statement of _create_chunks ran
    output_files,      \* split_file: the files written so far
    input_path,        \* split_file: input_path, as [dir, name]
    output_dir,        \* split_file: the output_dir argument
    existing,          \* the files of the file system before the run
    disk,              \* the files of the file system
    error,             \* the step that raised, "none" while nothing has
    exit_code,         \* what main returned, NoExit until it returns
    ch_pc,             \* position in Channel.get_all_videos / get_videos_page
    channel_id,        \* Channel._id
    page_token,        \* get_videos_page: page_token
    attempt,           \* get_videos_page: attempt
    fetch_log,         \* what the attempts of the current call yielded, in order
    page_result,       \* what the current call of get_videos_page returned or raised
    all_videos,        \* get_all_videos: all_videos
    pages,             \* the calls of get_videos_page so far
    run_pc,            \* position in YouTubeTranscriptCLI.run
    runs,              \* the runs of the CLI so far
    download_audio,    \* _process_videos: download_audio (--audio)
    video_queue,       \* _process_videos: the video urls not yet visited
    transcript_files,  \* the transcript files of the output directory, by video id
    audio_files,       \* the video ids with an audio file
    stats,             \* YouTubeTranscriptCLI.stats
    successful_transcripts, \* YouTubeTranscriptCLI.successful_transcripts
    failed,            \* YouTubeTranscriptCLI.progress['failed']
    last_call          \* what the last turn of the loop of _process_videos saw

vars == <<content, max_chars, max_bytes, pc, sections, split_sections, chunks,
          current_chunk, current_size, current_length, todo_chunks,
          optimized_chunks, temp_chunk, temp_size, temp_length, result,
          returned, output_files, input_path, output_dir, existing, disk,
          error, exit_code, ch_pc, channel_id, page_token, attempt, fetch_log,
          page_result, all_videos, pages, run_pc, runs, download_audio,
          video_queue, transcript_files, audio_files, stats,
          successful_transcripts, failed, last_call>>

----------------------------------------------------------------------------
(* Bounds of the model *)

\* documents are made of at most MaxTokens tokens
MaxTokens == 3
\* character ceilings 1..MaxCharLimit are explored (and the default ceiling)
MaxCharLimit == 4
\* byte ceilings 1..MaxByteLimit are explored (and the default ceiling)
MaxByteLimit == 4
\* the constructor is explored with max_chars in -1..MaxConfigChars
MaxConfigChars == 2
\* documents of headings are made of at most MaxHeadingTokens pieces
MaxHeadingTokens == 3
\* the ceilings of the runs on documents of headings range over 1..MaxHeadingChars
MaxHeadingChars == 2
\* the documents main splits are made of at most MaxCliTokens pieces
MaxCliTokens == 2
\* --max-chars ranges over 1..MaxCliChars
MaxCliChars == 2
\* a channel lists at most MaxVideos videos on a page
MaxVideos == 2
\* get_all_videos is followed over at most MaxPages pages
MaxPages == 2
\* a run of the CLI processes MaxRunVideos videos
MaxRunVideos == 2
\* the CLI runs at most MaxRuns times over the same output directory
MaxRuns == 2

(* Program constants *)
DefaultMaxChars == 2500000
DefaultMaxSizeMb == 200
BytesPerMb == 1048576
\* file_splitter_cli.py: the defaults of --max-chars and --max-size-mb
DefaultCliMaxChars == 500000
DefaultCliMaxSizeMb == 200
\* channel.py: max_retries
MaxRetries == 3

----------------------------------------------------------------------------
(* Characters and text *)

NL == "\n"
Euro == "U+20AC"

IsSpace(c) == c \in {" ", NL, "\t"}

IsSentenceEnd(c) == c \in {".", "!", "?"}

\* len(c.encode('utf-8')) of one character
Utf8Len(c) == IF c = Euro THEN 3 ELSE 1

RECURSIVE ByteSize(_)
\* len(s.encode('utf-8'))
ByteSize(s) == IF s = <<>> THEN 0 ELSE Utf8Len(Head(s)) + ByteSize(Tail(s))

RECURSIVE Join(_)
\* ''.join(list)
Join(list) == IF list = <<>> THEN <<>> ELSE Head(list) \o Join(Tail(list))

\* s[a:b] for 0 <= a <= b <= len(s)
Slice(s, a, b) == SubSeq(s, a + 1, b)

Min(a, b) == IF a <= b THEN a ELSE b

RECURSIVE PiecesFrom(_, _, _)
\* the pieces of s from offset `from` on, cut at every offset of `cuts`
\* (all of them >= from): an empty piece comes out of a cut at offset 0 or at
\* the end of s, as re.split returns it for a zero-width match there
PiecesFrom(s, from, cuts) ==
    IF cuts = {}
    THEN <<Slice(s, from, Len(s))>>
    ELSE LET c == CHOOSE x \in cuts : \A y \in cuts : x <= y
         IN  <<Slice(s, from, c)>> \o PiecesFrom(s, c, cuts \ {c})

\* re.split(zero-width pattern, s): cuts are the offsets where the pattern matches
SplitAtCuts(s, cuts) == PiecesFrom(s, 0, cuts)

----------------------------------------------------------------------------
(* _split_into_sections *)

\* the lookahead (?=\n##\s) matches at offset i of s
MarkdownH2At(s, i) ==
    /\ i + 4 <= Len(s)
    /\ s[i + 1] = NL
    /\ s[i + 2] = "#"
    /\ s[i + 3] = "#"
    /\ IsSpace(s[i + 4])

\* the lookahead (?=<h2[^>]*>) matches at offset i of s, ignoring case
HtmlH2At(s, i) ==
    /\ i + 4 <= Len(s)
    /\ s[i + 1] = "<"
    /\ s[i + 2] \in {"h", "H"}
    /\ s[i + 3] = "2"
    /\ \E j \in (i + 4)..Len(s) : s[j] = ">"

\* MarkdownCuts for a lookbehind: the cut falls after the heading prefix
MarkdownCutsAfter(s) == {i + 4 : i \in {j \in 0..Len(s) : MarkdownH2At(s, j)}}

MarkdownCuts(s) == {i \in 0..Len(s) : MarkdownH2At(s, i)}

HtmlCuts(s) == {i \in 0..Len(s) : HtmlH2At(s, i)}

\* Sized with len(s) for len(s.encode('utf-8'))
SizedInChars(s, kind) == [text |-> s, size |-> Len(s), kind |-> kind]

\* (s, len(s.encode('utf-8'))), with the kind of atom s is
Sized(s, kind) == [text |-> s, size |-> ByteSize(s), kind |-> kind]

SizedAll(list, kind) == [i \in 1..Len(list) |-> Sized(list[i], kind)]

\* SplitIntoSections that tries the HTML tags first
SplitIntoSectionsHtmlFirst(s) ==
    LET markdown_sections == SplitAtCuts(s, MarkdownCuts(s))
        html_sections == SplitAtCuts(s, HtmlCuts(s))
    IN  IF Len(html_sections) > 1 THEN SizedAll(html_sections, "section")
        ELSE IF Len(markdown_sections) > 1 THEN SizedAll(markdown_sections, "section")
        ELSE <<Sized(s, "section")>>

SplitIntoSections(s) ==
    LET markdown_sections == SplitAtCuts(s, MarkdownCuts(s))
        html_sections == SplitAtCuts(s, HtmlCuts(s))
    IN  IF Len(markdown_sections) > 1 THEN SizedAll(markdown_sections, "section")
        ELSE IF Len(html_sections) > 1 THEN SizedAll(html_sections, "section")
        ELSE <<Sized(s, "section")>>

----------------------------------------------------------------------------
(* _split_oversized_section *)

\* the lookbehind (?<=\n\n) matches at offset i of s
ParagraphCuts(s) == {i \in 2..Len(s) : s[i - 1] = NL /\ s[i] = NL}

RECURSIVE SpaceRunEnd(_, _)
\* the offset where the run of whitespace that starts at offset i ends
SpaceRunEnd(s, i) ==
    IF i < Len(s) /\ IsSpace(s[i + 1]) THEN SpaceRunEnd(s, i + 1) ELSE i

RECURSIVE SentencesFrom(_, _, _)
\* re.split(r'(?<=[.!?])\s+', s): the pieces of s from offset `from` on, the
\* scan being at offset i; the whitespace a match consumes is in no piece
SentencesFrom(s, from, i) ==
    IF i >= Len(s) THEN <<Slice(s, from, Len(s))>>
    ELSE IF i >= 1 /\ IsSentenceEnd(s[i]) /\ IsSpace(s[i + 1])
         THEN <<Slice(s, from, i)>> \o
              SentencesFrom(s, SpaceRunEnd(s, i), SpaceRunEnd(s, i))
         ELSE SentencesFrom(s, from, i + 1)

SplitSentences(s) == SentencesFrom(s, 0, 0)

RECURSIVE FixedSlices(_, _, _)
\* [section[i:i+chunk_size] for i in range(from, len(section), chunk_size)]
FixedSlices(s, from, chunk_size) ==
    IF from >= Len(s) \/ chunk_size < 0 THEN <<>>
    ELSE <<Slice(s, from, Min(from + chunk_size, Len(s)))>> \o
         FixedSlices(s, from + chunk_size, chunk_size)

\* SliceWidth without the character ceiling
SliceWidthBytesOnly(mc, mb) == mb \div 2

\* min(self.max_chars, self.max_bytes // 2)
SliceWidth(mc, mb) == Min(mc, mb \div 2)

\* the value _split_oversized_section returns, or the ValueError that
\* range() raises for a step of zero
SplitOversizedSection(s, mc, mb) ==
    LET paragraphs == SplitAtCuts(s, ParagraphCuts(s))
        sentences == SplitSentences(s)
        chunk_size == SliceWidth(mc, mb)
    IN  IF Len(paragraphs) > 1
        THEN [raised |-> FALSE, parts |-> SizedAll(paragraphs, "paragraph")]
        ELSE IF Len(sentences) > 1
        THEN [raised |-> FALSE, parts |-> SizedAll(sentences, "sentence")]
        ELSE IF chunk_size = 0
        THEN [raised |-> TRUE, parts |-> <<>>]
        ELSE [raised |-> FALSE, parts |-> SizedAll(FixedSlices(s, 0, chunk_size), "slice")]

----------------------------------------------------------------------------
(* _create_chunks: packing (the loop over sections) *)

\* Exceeds with the byte test left out
ExceedsCharsOnly(size, length, mc, mb) == length > mc

\* Exceeds with >= for >
ExceedsAtLimit(size, length, mc, mb) == size >= mb \/ length >= mc

\* Exceeds with `and` for `or`
ExceedsBoth(size, length, mc, mb) == size > mb /\ length > mc

\* the test of lines 99, 104-105, 117-118 and 143-144
Exceeds(size, length, mc, mb) == size > mb \/ length > mc

\* ''.join(current_chunk), with the number and the kinds of the atoms joined
JoinAtoms(atoms) ==
    [text  |-> Join([i \in 1..Len(atoms) |-> atoms[i].text]),
     atoms |-> Len(atoms),
     kinds |-> {atoms[i].kind : i \in 1..Len(atoms)}]

\* the state of the packing loop before any section
EmptyPack == [chunks |-> <<>>, current_chunk |-> <<>>,
              current_size |-> 0, current_length |-> 0]

\* PackAtom that keeps adding to the running totals when it opens a chunk
PackAtomNoReset(st, atom, mc, mb) ==
    IF Exceeds(st.current_size + atom.size,
               st.current_length + Len(atom.text), mc, mb)
    THEN [chunks |-> IF st.current_chunk # <<>>
                     THEN Append(st.chunks, JoinAtoms(st.current_chunk))
                     ELSE st.chunks,
          current_chunk |-> <<atom>>,
          current_size |-> st.current_size + atom.size,
          current_length |-> st.current_length + Len(atom.text)]
    ELSE [chunks |-> st.chunks,
          current_chunk |-> Append(st.current_chunk, atom),
          current_size |-> st.current_size + atom.size,
          current_length |-> st.current_length + Len(atom.text)]

\* one pass of the loop body for an atom (a section that fits, or a
\* sub-section of an oversized one): close the open chunk and start a new one
\* with the atom, or append the atom
PackAtom(st, atom, mc, mb) ==
    IF Exceeds(st.current_size + atom.size,
               st.current_length + Len(atom.text), mc, mb)
    THEN [chunks |-> IF st.current_chunk # <<>>
                     THEN Append(st.chunks, JoinAtoms(st.current_chunk))
                     ELSE st.chunks,
          current_chunk |-> <<atom>>,
          current_size |-> atom.size,
          current_length |-> Len(atom.text)]
    ELSE [chunks |-> st.chunks,
          current_chunk |-> Append(st.current_chunk, atom),
          current_size |-> st.current_size + atom.size,
          current_length |-> st.current_length + Len(atom.text)]

\* if size > self.max_bytes or section_length > self.max_chars
Oversized(section, mc, mb) == Exceeds(section.size, Len(section.text), mc, mb)

\* lines 129-130: the open chunk is emitted when the loop ends
FlushPack(st) ==
    IF st.current_chunk # <<>>
    THEN Append(st.chunks, JoinAtoms(st.current_chunk))
    ELSE st.chunks

----------------------------------------------------------------------------
(* _create_chunks: the optimization pass over the chunks *)

RECURSIVE SumAtoms(_)
\* the number of atoms in a list of chunks
SumAtoms(list) == IF list = <<>> THEN 0 ELSE Head(list).atoms + SumAtoms(Tail(list))

\* ''.join(temp_chunk)
JoinChunks(list) ==
    [text  |-> Join([i \in 1..Len(list) |-> list[i].text]),
     atoms |-> SumAtoms(list),
     kinds |-> UNION {list[i].kinds : i \in 1..Len(list)}]

EmptyMerge == [optimized_chunks |-> <<>>, temp_chunk |-> <<>>,
               temp_size |-> 0, temp_length |-> 0]

\* MergeChunk that looks at the character ceiling only
MergeChunkOnChars(st, chunk, mc, mb) ==
    LET chunk_size == ByteSize(chunk.text)
        chunk_length == Len(chunk.text)
    IN  IF st.temp_length + chunk_length > mc
        THEN [optimized_chunks |-> IF st.temp_chunk # <<>>
                                   THEN Append(st.optimized_chunks, JoinChunks(st.temp_chunk))
                                   ELSE st.optimized_chunks,
              temp_chunk |-> <<chunk>>,
              temp_size |-> chunk_size,
              temp_length |-> chunk_length]
        ELSE [optimized_chunks |-> st.optimized_chunks,
              temp_chunk |-> Append(st.temp_chunk, chunk),
              temp_size |-> st.temp_size + chunk_size,
              temp_length |-> st.temp_length + chunk_length]

\* one pass of the loop body of lines 139-153
MergeChunk(st, chunk, mc, mb) ==
    LET chunk_size == ByteSize(chunk.text)
        chunk_length == Len(chunk.text)
    IN  IF Exceeds(st.temp_size + chunk_size, st.temp_length + chunk_length, mc, mb)
        THEN [optimized_chunks |-> IF st.temp_chunk # <<>>
                                   THEN Append(st.optimized_chunks, JoinChunks(st.temp_chunk))
                                   ELSE st.optimized_chunks,
              temp_chunk |-> <<chunk>>,
              temp_size |-> chunk_size,
              temp_length |-> chunk_length]
        ELSE [optimized_chunks |-> st.optimized_chunks,
              temp_chunk |-> Append(st.temp_chunk, chunk),
              temp_size |-> st.temp_size + chunk_size,
              temp_length |-> st.temp_length + chunk_length]

\* lines 155-156
FlushMerge(st) ==
    IF st.temp_chunk # <<>>
    THEN Append(st.optimized_chunks, JoinChunks(st.temp_chunk))
    ELSE st.optimized_chunks

\* ReturnsOptimized with <= for <
ReturnsOptimizedOrEqual(optimized, stage2) == Len(optimized) <= Len(stage2)

\* line 159: only return optimized chunks if the number was reduced
ReturnsOptimized(optimized, stage2) == Len(optimized) < Len(stage2)

----------------------------------------------------------------------------
(* _create_chunks and the split as functions of their arguments *)

RECURSIVE PackAll(_, _, _, _)
\* the loop of lines 102-114 over the sub-sections of an oversized section
PackAll(st, atoms, mc, mb) ==
    IF atoms = <<>> THEN st
    ELSE PackAll(PackAtom(st, Head(atoms), mc, mb), Tail(atoms), mc, mb)

RECURSIVE PackSections(_, _, _, _)
\* the loop of lines 95-127 over the sections
PackSections(st, secs, mc, mb) ==
    IF secs = <<>> THEN [raised |-> FALSE, st |-> st]
    ELSE IF Oversized(Head(secs), mc, mb)
         THEN LET r == SplitOversizedSection(Head(secs).text, mc, mb)
              IN  IF r.raised THEN [raised |-> TRUE, st |-> st]
                  ELSE PackSections(PackAll(st, r.parts, mc, mb), Tail(secs), mc, mb)
         ELSE PackSections(PackAtom(st, Head(secs), mc, mb), Tail(secs), mc, mb)

RECURSIVE MergeAll(_, _, _, _)
\* the loop of lines 139-153 over the chunks
MergeAll(st, list, mc, mb) ==
    IF list = <<>> THEN st
    ELSE MergeAll(MergeChunk(st, Head(list), mc, mb), Tail(list), mc, mb)

\* _create_chunks(sections): the list returned, or the ValueError raised
CreateChunks(secs, mc, mb) ==
    LET packed == PackSections(EmptyPack, secs, mc, mb)
        stage2 == FlushPack(packed.st)
        optimized == FlushMerge(MergeAll(EmptyMerge, stage2, mc, mb))
    IN  IF packed.raised THEN [raised |-> TRUE, chunks |-> <<>>]
        ELSE IF Len(stage2) > 1 /\ ReturnsOptimized(optimized, stage2)
        THEN [raised |-> FALSE, chunks |-> optimized]
        ELSE [raised |-> FALSE, chunks |-> stage2]

\* split_file lines 42-45 on a text
SplitText(s, mc, mb) == CreateChunks(SplitIntoSections(s), mc, mb)

\* the texts of a list of chunks or atoms
Texts(list) == [i \in 1..Len(list) |-> list[i].text]

----------------------------------------------------------------------------
(* Paths and part files: split_file lines 31-35 and 50 *)

\* the output_dir argument left out: None
NoArg == "<None>"

\* 1-based index of the last "." of name[1..i], 0 when there is none
RECURSIVE LastDot(_, _)

LastDot(name, i) ==
    IF i = 0 THEN 0
    ELSE IF name[i] = "." THEN i ELSE LastDot(name, i - 1)

\* pathlib: a name has a suffix when its last dot is neither its first nor
\* its last character
HasSuffix(name) == 1 < LastDot(name, Len(name)) /\ LastDot(name, Len(name)) < Len(name)

\* PurePath.suffix
Suffix(name) ==
    IF HasSuffix(name) THEN SubSeq(name, LastDot(name, Len(name)), Len(name)) ELSE <<>>

\* PurePath.stem
Stem(name) ==
    IF HasSuffix(name) THEN SubSeq(name, 1, LastDot(name, Len(name)) - 1) ELSE name

Digits == <<"0", "1", "2", "3", "4", "5", "6", "7", "8", "9">>

\* str(i) of a natural number, as an f-string formats it
RECURSIVE Decimal(_)

Decimal(i) ==
    IF i < 10 THEN <<Digits[i + 1]>>
    ELSE Decimal(i \div 10) \o <<Digits[(i % 10) + 1]>>

\* lines 32-35: no output_dir, or an empty one, means the input's directory
ResolveOutputDir(path, dir) == IF dir \in {NoArg, ""} THEN path.dir ELSE dir

\* OutputPath that counts the parts from zero
OutputPathFromZero(path, dir, i) ==
    [dir |-> ResolveOutputDir(path, dir),
     name |-> Stem(path.name) \o <<"_", "p", "a", "r", "t">> \o Decimal(i - 1)
              \o Suffix(path.name)]

\* line 50: output_dir / f"{input_path.stem}_part{i}{input_path.suffix}"
OutputPath(path, dir, i) ==
    [dir |-> ResolveOutputDir(path, dir),
     name |-> Stem(path.name) \o <<"_", "p", "a", "r", "t">> \o Decimal(i)
              \o Suffix(path.name)]

\* lines 51-52: open(output_path, 'w') and write: the file is created, or
\* replaced when it exists
WriteFile(files, path, text) ==
    {f \in files : f.path # path} \cup {[path |-> path, text |-> text]}

----------------------------------------------------------------------------
(* Inputs *)

\* the pieces documents are made of: a markdown heading prefix, an HTML
\* heading tag, and single characters
Tokens == {<<NL, "#", "#">>, <<"<", "h", "2", ">">>,
           <<NL>>, <<" ">>, <<".">>, <<"a">>, <<Euro>>}

TokenSeqs == UNION {[1..n -> Tokens] : n \in 0..MaxTokens}

Documents == {Join(ts) : ts \in TokenSeqs}

\* max_chars: small ceilings, and the constructor's default
CharLimits == (1..MaxCharLimit) \cup {DefaultMaxChars}

\* max_bytes: small ceilings (set on the instance), and the constructor's
\* max_size_mb * 1024 * 1024 for the default max_size_mb
ByteLimits == (1..MaxByteLimit) \cup {DefaultMaxSizeMb * BytesPerMb}

----------------------------------------------------------------------------
(* split_file and _create_chunks as a state machine *)

\* channel.py: no token, no channel id, no result
NoToken == "<no token>"
NoId == "<no id>"
NoResult == [kind |-> "none", videos |-> <<>>, next_page |-> NoToken]

channelVars == <<ch_pc, channel_id, page_token, attempt, fetch_log, page_result,
                 all_videos, pages>>

\* no channel is being listed
ChannelIdle ==
    /\ ch_pc = "idle"
    /\ channel_id = NoId
    /\ page_token = NoToken
    /\ attempt = 0
    /\ fetch_log = <<>>
    /\ page_result = NoResult
    /\ all_videos = <<>>
    /\ pages = 0

runVars == <<run_pc, runs, download_audio, video_queue, transcript_files,
             audio_files, stats, successful_transcripts, failed, last_call>>

\* cli.py lines 41-50: the counters of a new YouTubeTranscriptCLI
NewStats ==
    [k \in {"success", "skipped", "disabled", "disabled_with_audio", "not_found",
            "not_found_with_audio", "error", "live"} |-> 0]

\* no turn of the loop yet
NoCall == [video |-> 0]

\* no CLI is running
RunIdle ==
    /\ run_pc = "idle"
    /\ runs = 0
    /\ download_audio = FALSE
    /\ video_queue = <<>>
    /\ transcript_files = <<>>
    /\ audio_files = {}
    /\ stats = NewStats
    /\ successful_transcripts = <<>>
    /\ failed = <<>>
    /\ last_call = NoCall

\* the splitter before split_file starts
InitSplitter(docs, charLimits, byteLimits) ==
    /\ content \in docs
    /\ max_chars \in charLimits
    /\ max_bytes \in byteLimits
    /\ pc = "read"
    /\ sections = <<>>
    /\ split_sections = <<>>
    /\ chunks = <<>>
    /\ current_chunk = <<>>
    /\ current_size = 0
    /\ current_length = 0
    /\ todo_chunks = <<>>
    /\ optimized_chunks = <<>>
    /\ temp_chunk = <<>>
    /\ temp_size = 0
    /\ temp_length = 0
    /\ result = <<>>
    /\ returned = "none"
    /\ output_files = <<>>

\* a run of the splitter alone
InitWith(docs, charLimits, byteLimits) ==
    /\ InitSplitter(docs, charLimits, byteLimits)
    /\ ChannelIdle
    /\ RunIdle

\* no exit code yet
NoExit == -1

\* the text of a part file left by an earlier run
StaleText == <<"o", "l", "d">>

\* the arguments of split_file and the file system it starts in: nothing,
\* or (stale) a first part file left by an earlier run
InitIo(paths, dirs, stale) ==
    /\ input_path \in paths
    /\ output_dir \in dirs
    /\ existing \in {IF b THEN {[path |-> OutputPath(input_path, output_dir, 1),
                                 text |-> StaleText]}
                           ELSE {} : b \in stale}
    /\ disk = existing
    /\ error = "none"
    /\ exit_code = NoExit

\* the input file of the library runs: docs/a.md
DefaultInput == [dir |-> "docs", name |-> <<"a", ".", "m", "d">>]

Init ==
    /\ InitWith(Documents, CharLimits, ByteLimits)
    /\ InitIo({DefaultInput}, {NoArg}, {FALSE})

\* FileSplitter.__init__: self.max_bytes = max_size_mb * 1024 * 1024
MaxBytesOf(max_size_mb) == max_size_mb * BytesPerMb

\* the arguments of the constructor when nothing restricts them: zero and
\* negative values too
AnyMaxChars == (-1)..MaxConfigChars
AnyMaxSizeMb == {-1, 0, 1}

\* the splitter as the constructor leaves it for any arguments
InitConfig ==
    /\ InitWith(Documents, AnyMaxChars, {MaxBytesOf(mb) : mb \in AnyMaxSizeMb})
    /\ InitIo({DefaultInput}, {NoArg}, {FALSE})

\* the packing variables as a record, and back
Pack == [chunks |-> chunks, current_chunk |-> current_chunk,
         current_size |-> current_size, current_length |-> current_length]

SetPack(st) ==
    /\ chunks' = st.chunks
    /\ current_chunk' = st.current_chunk
    /\ current_size' = st.current_size
    /\ current_length' = st.current_length

Merge == [optimized_chunks |-> optimized_chunks, temp_chunk |-> temp_chunk,
          temp_size |-> temp_size, temp_length |-> temp_length]

SetMerge(st) ==
    /\ optimized_chunks' = st.optimized_chunks
    /\ temp_chunk' = st.temp_chunk
    /\ temp_size' = st.temp_size
    /\ temp_length' = st.temp_length

mergeVars == <<todo_chunks, optimized_chunks, temp_chunk, temp_size, temp_length>>
packVars == <<chunks, current_chunk, current_size, current_length>>
\* what a run never assigns: the limits and the arguments of split_file
limitVars == <<content, max_chars, max_bytes, input_path, output_dir, existing>>
ioVars == <<disk, error, exit_code>>

\* split_file lines 38-42: read the file, split it into sections
ReadAndSplitIntoSections ==
    /\ pc = "read"
    /\ sections' = SplitIntoSections(content)
    /\ pc' = "pack"
    /\ UNCHANGED <<limitVars, channelVars, runVars, ioVars, split_sections, packVars, mergeVars, result,
                   returned, output_files>>

\* lines 95-99, 115-127: a section that fits on its own
PackSection ==
    /\ pc = "pack"
    /\ split_sections = <<>>
    /\ sections # <<>>
    /\ ~Oversized(Head(sections), max_chars, max_bytes)
    /\ SetPack(PackAtom(Pack, Head(sections), max_chars, max_bytes))
    /\ sections' = Tail(sections)
    /\ UNCHANGED <<limitVars, channelVars, runVars, ioVars, pc, split_sections, mergeVars, result, returned,
                   output_files>>

\* lines 95-101: an oversized section is split; range() raises ValueError
\* for a slice width of zero
SplitSection ==
    /\ pc = "pack"
    /\ split_sections = <<>>
    /\ sections # <<>>
    /\ Oversized(Head(sections), max_chars, max_bytes)
    /\ LET r == SplitOversizedSection(Head(sections).text, max_chars, max_bytes)
       IN  IF r.raised
           THEN /\ pc' = "raised"
                /\ error' = "split"
                /\ UNCHANGED <<sections, split_sections>>
           ELSE /\ pc' = pc
                /\ split_sections' = r.parts
                /\ sections' = Tail(sections)
                /\ UNCHANGED error
    /\ UNCHANGED <<limitVars, channelVars, runVars, disk, exit_code, packVars, mergeVars, result,
                   returned, output_files>>

\* PackSubSection that gives every sub-section a chunk of its own
PackSubSectionAlone ==
    /\ pc = "pack"
    /\ split_sections # <<>>
    /\ chunks' = FlushPack(Pack)
    /\ current_chunk' = <<Head(split_sections)>>
    /\ current_size' = Head(split_sections).size
    /\ current_length' = Len(Head(split_sections).text)
    /\ split_sections' = Tail(split_sections)
    /\ UNCHANGED <<limitVars, channelVars, runVars, ioVars, pc, sections, mergeVars, result, returned,
                   output_files>>

\* lines 102-114: a sub-section of the oversized section
PackSubSection ==
    /\ pc = "pack"
    /\ split_sections # <<>>
    /\ SetPack(PackAtom(Pack, Head(split_sections), max_chars, max_bytes))
    /\ split_sections' = Tail(split_sections)
    /\ UNCHANGED <<limitVars, channelVars, runVars, ioVars, pc, sections, mergeVars, result, returned,
                   output_files>>

\* lines 129-133, 162: the loop is over; the open chunk is emitted, and one
\* chunk or none is returned as it is
FinishPacking ==
    /\ pc = "pack"
    /\ split_sections = <<>>
    /\ sections = <<>>
    /\ chunks' = FlushPack(Pack)
    /\ IF Len(chunks') > 1
       THEN /\ pc' = "optimize"
            /\ todo_chunks' = chunks'
            /\ UNCHANGED <<result, returned>>
       ELSE /\ pc' = "write"
            /\ result' = chunks'
            /\ returned' = "chunks"
            /\ UNCHANGED todo_chunks
    /\ UNCHANGED <<limitVars, channelVars, runVars, ioVars, sections, split_sections, current_chunk,
                   current_size, current_length, optimized_chunks, temp_chunk,
                   temp_size, temp_length, output_files>>

\* lines 139-153: one chunk of the optimization loop
OptimizeChunk ==
    /\ pc = "optimize"
    /\ todo_chunks # <<>>
    /\ SetMerge(MergeChunk(Merge, Head(todo_chunks), max_chars, max_bytes))
    /\ todo_chunks' = Tail(todo_chunks)
    /\ UNCHANGED <<limitVars, channelVars, runVars, ioVars, pc, sections, split_sections, packVars, result,
                   returned, output_files>>

\* lines 155-162: the optimization loop is over; which list is returned
FinishOptimize ==
    /\ pc = "optimize"
    /\ todo_chunks = <<>>
    /\ optimized_chunks' = FlushMerge(Merge)
    /\ IF ReturnsOptimized(optimized_chunks', chunks)
       THEN result' = optimized_chunks' /\ returned' = "optimized_chunks"
       ELSE result' = chunks /\ returned' = "chunks"
    /\ pc' = "write"
    /\ UNCHANGED <<limitVars, channelVars, runVars, ioVars, sections, split_sections, packVars, todo_chunks,
                   temp_chunk, temp_size, temp_length, output_files>>

\* ChunksToWrite when empty chunks are skipped
ChunksToWriteNonEmpty(list) ==
    LET kept == SelectSeq(list, LAMBDA c : c.text # <<>>)
    IN  [i \in 1..Len(kept) |-> [part |-> i, text |-> kept[i].text]]

\* the chunks split_file writes: for i, chunk in enumerate(chunks, 1)
ChunksToWrite(list) == [i \in 1..Len(list) |-> [part |-> i, text |-> list[i].text]]

\* split_file lines 49-53: the next chunk is written to its part file
WriteChunk ==
    /\ pc = "write"
    /\ Len(output_files) < Len(ChunksToWrite(result))
    /\ LET c == ChunksToWrite(result)[Len(output_files) + 1]
           output_path == OutputPath(input_path, output_dir, c.part)
       IN  /\ disk' = WriteFile(disk, output_path, c.text)
           /\ output_files' = Append(output_files,
                  [part |-> c.part, path |-> output_path, text |-> c.text])
    /\ UNCHANGED <<limitVars, channelVars, runVars, error, exit_code, pc, sections, split_sections,
                   packVars, mergeVars, result, returned>>

\* split_file line 55: return output_files
ReturnOutputFiles ==
    /\ pc = "write"
    /\ Len(output_files) = Len(ChunksToWrite(result))
    /\ pc' = "done"
    /\ UNCHANGED <<limitVars, channelVars, runVars, ioVars, sections, split_sections, packVars, mergeVars,
                   result, returned, output_files>>

Next ==
    \/ ReadAndSplitIntoSections
    \/ PackSection
    \/ SplitSection
    \/ PackSubSection
    \/ FinishPacking
    \/ OptimizeChunk
    \/ FinishOptimize
    \/ WriteChunk
    \/ ReturnOutputFiles

Spec == Init /\ [][Next]_vars

\* the same program, constructed with unrestricted arguments
SpecConfig == InitConfig /\ [][Next]_vars

\* documents of headings of both styles: a markdown heading prefix, an HTML
\* tag in either case, the pieces of an upper-case tag with attributes
HeadingTokens == {<<NL, "#", "#", " ">>, <<"<", "h", "2", ">">>,
                  <<"<", "H", "2">>, <<">">>, <<"a">>}

HeadingDocuments ==
    {Join(ts) : ts \in UNION {[1..n -> HeadingTokens] : n \in 0..MaxHeadingTokens}}

InitSections ==
    /\ InitWith(HeadingDocuments, (1..MaxHeadingChars) \cup {DefaultMaxChars},
                {DefaultMaxSizeMb * BytesPerMb})
    /\ InitIo({DefaultInput}, {NoArg}, {FALSE})

\* the same program on documents of headings
SpecSections == InitSections /\ [][Next]_vars

----------------------------------------------------------------------------
(* main of file_splitter_cli.py *)

\* --max-chars: small values, and the default
CliMaxChars == (1..MaxCliChars) \cup {DefaultCliMaxChars}

\* --max-size-mb: zero, and the default
CliMaxSizeMb == {0, DefaultCliMaxSizeMb}

CliTokens == {<<NL>>, <<".">>, <<"a">>, <<Euro>>}

CliDocuments ==
    {Join(ts) : ts \in UNION {[1..n -> CliTokens] : n \in 0..MaxCliTokens}}

\* file_path: names with a suffix, without one, and with a leading dot only
CliInputs == {[dir |-> "docs", name |-> n] :
                 n \in {<<"a", ".", "m">>, <<"a">>, <<".", "m">>}}

\* --output-dir: left out, empty, or a directory
CliOutputDirs == {NoArg, "", "out"}

\* lines 21-27: the arguments are parsed and the splitter is constructed
InitCli ==
    /\ InitWith(CliDocuments, CliMaxChars, {MaxBytesOf(mb) : mb \in CliMaxSizeMb})
    /\ InitIo(CliInputs, CliOutputDirs, {FALSE, TRUE})

\* split_file lines 38-39: open() or read() raises
ReadFails ==
    /\ pc = "read"
    /\ pc' = "raised"
    /\ error' = "read"
    /\ UNCHANGED <<limitVars, channelVars, runVars, disk, exit_code, sections, split_sections,
                   packVars, mergeVars, result, returned, output_files>>

\* split_file line 51: open(output_path, 'w') raises
WriteFails ==
    /\ pc = "write"
    /\ Len(output_files) < Len(ChunksToWrite(result))
    /\ pc' = "raised"
    /\ error' = "write"
    /\ UNCHANGED <<limitVars, channelVars, runVars, disk, exit_code, sections, split_sections,
                   packVars, mergeVars, result, returned, output_files>>

\* main lines 35-39: split_file returned; the paths are printed
MainReturns ==
    /\ pc = "done"
    /\ pc' = "exit"
    /\ exit_code' = 0
    /\ UNCHANGED <<limitVars, channelVars, runVars, disk, error, sections, split_sections, packVars,
                   mergeVars, result, returned, output_files>>

\* MainExcept that reports success
MainExceptReturnsZero ==
    /\ pc = "raised"
    /\ pc' = "exit"
    /\ exit_code' = 0
    /\ UNCHANGED <<limitVars, channelVars, runVars, disk, error, sections, split_sections, packVars,
                   mergeVars, result, returned, output_files>>

\* main lines 41-43: except Exception
MainExcept ==
    /\ pc = "raised"
    /\ pc' = "exit"
    /\ exit_code' = 1
    /\ UNCHANGED <<limitVars, channelVars, runVars, disk, error, sections, split_sections, packVars,
                   mergeVars, result, returned, output_files>>

NextCli ==
    \/ Next
    \/ ReadFails
    \/ WriteFails
    \/ MainReturns
    \/ MainExcept

\* main on a file system whose reads and writes may fail
SpecCli == InitCli /\ [][NextCli]_vars

----------------------------------------------------------------------------
(* Channel.get_all_videos and Channel.get_videos_page of channel.py *)

splitterVars == <<limitVars, ioVars, pc, sections, split_sections, packVars,
                  mergeVars, result, returned, output_files>>

\* the splitter at rest
SplitterIdle ==
    /\ InitSplitter({<<>>}, {DefaultMaxChars}, {DefaultMaxSizeMb * BytesPerMb})
    /\ InitIo({DefaultInput}, {NoArg}, {FALSE})

\* the video ids a channel lists
VideoIds == 1..MaxVideos

\* f"https://youtu.be/{entry['id']}", as its pieces between slashes
VideoUrl(id) == <<"https:", "", "youtu.be", id>>

VideoUrls(ids) == [i \in 1..Len(ids) |-> VideoUrl(ids[i])]

\* the entries one page can hold: the first videos of the channel, in order
EntryLists == {[i \in 1..n |-> i] : n \in 1..MaxVideos}

\* what ydl.extract_info(base_url) can do in one attempt: raise, yield no
\* entries, or yield entries with or without a continuation
FetchOutcomes(more) ==
    {[kind |-> "raises", entries |-> <<>>, continuation |-> NoToken],
     [kind |-> "empty", entries |-> <<>>, continuation |-> NoToken]}
    \cup {[kind |-> "entries", entries |-> e, continuation |-> c] :
             e \in EntryLists, c \in IF more THEN {NoToken, "t1"} ELSE {NoToken}}

\* RetryAllowed that never gives up
RetryAllowedAlways(n) == TRUE

\* lines 112 and 122: attempt < max_retries - 1
RetryAllowed(n) == n < MaxRetries - 1

\* get_all_videos starts on a channel whose id is cached or not
InitChannel ==
    /\ SplitterIdle
    /\ RunIdle
    /\ ch_pc = "call"
    /\ channel_id \in {NoId, "UC1"}
    /\ page_token = NoToken
    /\ attempt = 0
    /\ fetch_log = <<>>
    /\ page_result = NoResult
    /\ all_videos = <<>>
    /\ pages = 1

\* lines 24-29, 78-79: self.id is the cached id, or is fetched, which may
\* raise ChannelInfoError
ResolveId ==
    /\ ch_pc = "call"
    /\ \/ /\ channel_id # NoId
          /\ ch_pc' = "fetch"
          /\ UNCHANGED <<channel_id, page_result>>
       \/ /\ channel_id = NoId
          /\ channel_id' = "UC1"
          /\ ch_pc' = "fetch"
          /\ UNCHANGED page_result
       \/ /\ channel_id = NoId
          /\ ch_pc' = "raised"
          /\ page_result' = [kind |-> "ChannelInfoError", videos |-> <<>>,
                             next_page |-> NoToken]
          /\ UNCHANGED channel_id
    /\ UNCHANGED <<splitterVars, runVars, page_token, attempt, fetch_log, all_videos, pages>>

\* lines 107-127: one turn of the retry loop
FetchAttempt ==
    /\ ch_pc = "fetch"
    /\ IF attempt >= MaxRetries
       THEN /\ ch_pc' = "returned"
            /\ page_result' = [kind |-> "returned", videos |-> <<>>,
                               next_page |-> NoToken]
            /\ UNCHANGED <<attempt, fetch_log>>
       ELSE \E o \in FetchOutcomes(pages < MaxPages) :
            /\ fetch_log' = Append(fetch_log, o)
            /\ IF o.kind = "entries"
               THEN /\ ch_pc' = "returned"
                    /\ page_result' = [kind |-> "returned",
                                       videos |-> VideoUrls(o.entries),
                                       next_page |-> o.continuation]
                    /\ UNCHANGED attempt
               ELSE IF RetryAllowed(attempt)
               THEN /\ attempt' = attempt + 1
                    /\ UNCHANGED <<ch_pc, page_result>>
               ELSE IF o.kind = "empty"
               THEN /\ ch_pc' = "returned"
                    /\ page_result' = [kind |-> "returned", videos |-> <<>>,
                                       next_page |-> NoToken]
                    /\ UNCHANGED attempt
               ELSE /\ ch_pc' = "raised"
                    /\ page_result' = [kind |-> "VideoFetchError", videos |-> <<>>,
                                       next_page |-> NoToken]
                    /\ UNCHANGED attempt
    /\ UNCHANGED <<splitterVars, runVars, channel_id, page_token, all_videos, pages>>

\* get_all_videos lines 139-145: the page is added; the loop ends, or calls
\* get_videos_page with the continuation
ExtendAllVideos ==
    /\ ch_pc = "returned"
    /\ all_videos' = all_videos \o page_result.videos
    /\ IF page_result.next_page = NoToken
       THEN /\ ch_pc' = "listed"
            /\ UNCHANGED <<page_token, attempt, fetch_log, pages, page_result>>
       ELSE /\ ch_pc' = "call"
            /\ page_token' = page_result.next_page
            /\ attempt' = 0
            /\ fetch_log' = <<>>
            /\ pages' = pages + 1
            /\ page_result' = NoResult
    /\ UNCHANGED <<splitterVars, runVars, channel_id>>

NextChannel ==
    \/ ResolveId
    \/ FetchAttempt
    \/ ExtendAllVideos

\* the listing of a channel; the code runs in one thread, every step of it
\* is taken
SpecChannel == InitChannel /\ [][NextChannel]_vars /\ WF_vars(NextChannel)

----------------------------------------------------------------------------
(* Transcript.download of transcript.py and _process_videos of cli.py *)

\* None, as download returns it for the transcript data
NoData == [none |-> TRUE]

\* no file at a path
Absent == [absent |-> TRUE]

\* a transcript file that json.load cannot read
Corrupt == [corrupt |-> TRUE]

\* A string that may hold underscores is the sequence of its pieces between
\* them.  str(e) of an exception of the transcript source: one without an
\* underscore, and two with
ErrorMessages == {<<"timeout">>, <<"rate", "limited">>, <<"disabled", "by", "uploader">>}

\* str(e) of the OSError of a write that failed
WriteErrorMessage == <<"Permission denied">>

\* the segments the transcript source returns
SourceSegments == <<[text |-> "hello", start |-> 0, duration |-> 2]>>

\* lines 71-73: del item['duration']
WithoutDuration(item) == [k \in DOMAIN item \ {"duration"} |-> item[k]]

\* lines 75-80
TranscriptData(v, transcript) ==
    [title |-> "title", video_id |-> v, published_date |-> "date",
     transcript |-> [i \in 1..Len(transcript) |-> WithoutDuration(transcript[i])]]

\* lines 103-108
ErrorData(v, error_type) ==
    [title |-> "title", video_id |-> v, error |-> error_type,
     published_date |-> "date"]

\* line 113: error_type.split('_')[0] if '_' in error_type else 'error'
ErrorStatus(error_type) == IF Len(error_type) > 1 THEN error_type[1] ELSE "error"

\* open(path, 'w') and json.dump: the file of the video is created or replaced
PutFile(files, v, data) ==
    [w \in DOMAIN files \cup {v} |-> IF w = v THEN data ELSE files[w]]

\* an exception leaves download
Raised(files, info, source, contacted) ==
    [raised |-> TRUE, files |-> files, status |-> "", data |-> NoData,
     contacted |-> contacted, info |-> info, source |-> source]

\* SaveErrorStatus that writes no file
SaveErrorStatusNoFile(files, v, error_type, env, info, source, contacted) ==
    IF env.save_ok
    THEN [raised |-> FALSE, files |-> files,
          status |-> ErrorStatus(error_type), data |-> NoData,
          contacted |-> contacted, info |-> info, source |-> source]
    ELSE Raised(files, info, source, contacted)

\* lines 101-113: _save_error_status, whose open() may raise
SaveErrorStatus(files, v, error_type, env, info, source, contacted) ==
    IF env.save_ok
    THEN [raised |-> FALSE, files |-> PutFile(files, v, ErrorData(v, error_type)),
          status |-> ErrorStatus(error_type), data |-> NoData,
          contacted |-> contacted, info |-> info, source |-> source]
    ELSE Raised(files, info, source, contacted)

\* lines 45-99: download for video v in environment env: what the video
\* information says, what the transcript source answers, which writes succeed
Download(files, v, env) ==
    IF v \in DOMAIN files
    THEN [raised |-> FALSE, files |-> files, status |-> "skipped",
          data |-> IF files[v] = Corrupt THEN NoData ELSE files[v],
          contacted |-> FALSE, info |-> "unused", source |-> "unused"]
    ELSE IF env.info = "raises"
    THEN Raised(files, env.info, "unused", FALSE)
    ELSE IF env.info = "live"
    THEN SaveErrorStatus(files, v, <<"live", "event">>, env, env.info, "unused", FALSE)
    ELSE IF env.info = "unavailable"
    THEN SaveErrorStatus(files, v, <<"video", "unavailable">>, env, env.info,
                         "unused", FALSE)
    ELSE IF env.source = "segments"
    THEN IF env.tmp_ok
         THEN [raised |-> FALSE,
               files |-> PutFile(files, v, TranscriptData(v, SourceSegments)),
               status |-> "success", data |-> TranscriptData(v, SourceSegments),
               contacted |-> TRUE, info |-> env.info, source |-> env.source]
         ELSE SaveErrorStatus(files, v, WriteErrorMessage, env, env.info,
                              env.source, TRUE)
    ELSE IF env.source = "TranscriptsDisabled"
    THEN SaveErrorStatus(files, v, <<"transcripts", "disabled">>, env, env.info,
                         env.source, TRUE)
    ELSE IF env.source = "NoTranscriptFound"
    THEN SaveErrorStatus(files, v, <<"no", "transcript", "found">>, env, env.info,
                         env.source, TRUE)
    ELSE SaveErrorStatus(files, v, env.message, env, env.info, env.source, TRUE)

\* audio.py lines 42-95: Audio.download for a video that is neither live
\* nor unavailable
AudioDownload(files, v, env) ==
    IF v \in files THEN [raised |-> FALSE, ok |-> TRUE, files |-> files]
    ELSE IF env.audio = "ok"
    THEN [raised |-> FALSE, ok |-> TRUE, files |-> files \cup {v}]
    ELSE IF env.audio = "no_file"
    THEN [raised |-> FALSE, ok |-> FALSE, files |-> files]
    ELSE [raised |-> TRUE, ok |-> FALSE, files |-> files]

Env(info, source, message, tmp_ok, save_ok, audio) ==
    [info |-> info, source |-> source, message |-> message, tmp_ok |-> tmp_ok,
     save_ok |-> save_ok, audio |-> audio]

\* the environments of one turn of the loop: the video information is
\* live, unavailable, not to be had, or that of a normal video; for a normal
\* video the source answers or raises; the writes succeed or not; an audio
\* download is tried only after a status that asks for it
Envs ==
    {Env(i, "unused", <<"unused">>, TRUE, w, "unused") :
        i \in {"live", "unavailable"}, w \in BOOLEAN}
    \cup {Env("raises", "unused", <<"unused">>, TRUE, TRUE, "unused")}
    \cup {Env("normal", "segments", <<"unused">>, TRUE, TRUE, "unused")}
    \cup {Env("normal", "segments", <<"unused">>, FALSE, w, "unused") : w \in BOOLEAN}
    \cup {Env("normal", src, <<"unused">>, TRUE, w, "unused") :
             src \in {"TranscriptsDisabled", "NoTranscriptFound"}, w \in BOOLEAN}
    \cup {Env("normal", "Exception", m, TRUE, FALSE, "unused") : m \in ErrorMessages}
    \cup {Env("normal", "Exception", m, TRUE, TRUE, a) :
             m \in ErrorMessages, a \in {"ok", "no_file", "raises"}}

\* cli.py lines 302-306: _update_stats
UpdateStats(st, status) ==
    [k \in DOMAIN st \cup {status} |->
        (IF k \in DOMAIN st THEN st[k] ELSE 0) + (IF k = status THEN 1 ELSE 0)]

\* cli.py lines 236-241: one count moves to the counter of audio downloads
MoveToAudio(st, status) ==
    IF status = "disabled"
    THEN [st EXCEPT !["disabled_with_audio"] = @ + 1, !["disabled"] = @ - 1]
    ELSE [st EXCEPT !["not_found_with_audio"] = @ + 1, !["not_found"] = @ - 1]

\* the video urls a run processes
RunUrls == [i \in 1..MaxRunVideos |-> VideoUrl(i)]

\* the first run of the CLI, over an output directory that is empty or holds
\* an unreadable file for the first video
InitRuns ==
    /\ SplitterIdle
    /\ ChannelIdle
    /\ run_pc = "process"
    /\ runs = 1
    /\ download_audio \in BOOLEAN
    /\ video_queue = RunUrls
    /\ transcript_files \in {<<>>, <<Corrupt>>}
    /\ audio_files = {}
    /\ stats = NewStats
    /\ successful_transcripts = <<>>
    /\ failed = <<>>
    /\ last_call = NoCall

\* cli.py lines 210-258: one turn of the loop of _process_videos
ProcessVideo ==
    /\ run_pc = "process"
    /\ video_queue # <<>>
    /\ \E env \in Envs :
         LET url == Head(video_queue)
             video_id == url[Len(url)]
             d == Download(transcript_files, video_id, env)
             counted == IF d.raised THEN stats ELSE UpdateStats(stats, d.status)
             wants_audio == /\ ~d.raised
                            /\ download_audio
                            /\ d.status \in {"disabled", "not_found"}
             a == IF wants_audio THEN AudioDownload(audio_files, video_id, env)
                  ELSE [raised |-> FALSE, ok |-> FALSE, files |-> audio_files]
             skipped == d.raised \/ a.raised
         IN  /\ transcript_files' = d.files
             /\ audio_files' = a.files
             /\ successful_transcripts' =
                    IF ~d.raised /\ d.data # NoData
                    THEN Append(successful_transcripts, d.data)
                    ELSE successful_transcripts
             /\ stats' = IF skipped THEN UpdateStats(counted, "skipped")
                         ELSE IF a.ok THEN MoveToAudio(counted, d.status)
                         ELSE counted
             /\ failed' = IF skipped THEN Append(failed, video_id) ELSE failed
             /\ last_call' =
                    [video |-> video_id, returned |-> ~d.raised,
                     status |-> d.status, data |-> d.data,
                     contacted |-> d.contacted, info |-> d.info,
                     source |-> d.source,
                     file_before |-> IF video_id \in DOMAIN transcript_files
                                     THEN transcript_files[video_id] ELSE Absent,
                     audio_attempted |-> wants_audio, audio_ok |-> a.ok,
                     stats_before |-> stats]
    /\ video_queue' = Tail(video_queue)
    /\ UNCHANGED <<splitterVars, channelVars, run_pc, runs, download_audio>>

\* cli.py lines 98-126: the loop is over; the summary and the merged document
FinishRun ==
    /\ run_pc = "process"
    /\ video_queue = <<>>
    /\ run_pc' = "merged"
    /\ UNCHANGED <<splitterVars, channelVars, runs, download_audio, video_queue,
                   transcript_files, audio_files, stats, successful_transcripts,
                   failed, last_call>>

\* cli.py lines 24-51, 70-96: the CLI runs again over the same directories
StartRun ==
    /\ run_pc = "merged"
    /\ runs < MaxRuns
    /\ run_pc' = "process"
    /\ runs' = runs + 1
    /\ download_audio' \in BOOLEAN
    /\ video_queue' = RunUrls
    /\ stats' = NewStats
    /\ successful_transcripts' = <<>>
    /\ failed' = <<>>
    /\ last_call' = NoCall
    /\ UNCHANGED <<splitterVars, channelVars, transcript_files, audio_files>>

NextRuns ==
    \/ ProcessVideo
    \/ FinishRun
    \/ StartRun

\* runs of the CLI over the same output directory
SpecRuns == InitRuns /\ [][NextRuns]_vars

----------------------------------------------------------------------------
(* Properties *)

\* _create_chunks has returned
Returned == pc \in {"write", "done"}

\* a text is over a ceiling of the splitter
OverLimit(text) == Len(text) > max_chars \/ ByteSize(text) > max_bytes

\* a chunk that is one forced fixed-width slice
ForcedSlice(chunk) == chunk.atoms = 1 /\ chunk.kinds = {"slice"}

\* C1: the chunks returned, concatenated in order, are the document.
LosslessRoundTrip == Returned => Join(Texts(result)) = content

\* C2: every returned chunk that is not a forced fixed-width slice is within
\* max_chars characters and max_bytes bytes.
LimitRespect ==
    Returned =>
        \A i \in 1..Len(result) :
            ~ForcedSlice(result[i]) => ~OverLimit(result[i].text)

\* C3: a chunk that is over a ceiling is made of exactly one atom, in every
\* state of the packing loop, of the optimization loop and in the result;
\* the open chunk is within the ceilings as soon as it holds two atoms.
SingleAtomOverLimit ==
    /\ \A i \in 1..Len(chunks) : OverLimit(chunks[i].text) => chunks[i].atoms = 1
    /\ \A i \in 1..Len(optimized_chunks) :
           OverLimit(optimized_chunks[i].text) => optimized_chunks[i].atoms = 1
    /\ \A i \in 1..Len(result) : OverLimit(result[i].text) => result[i].atoms = 1
    /\ Len(current_chunk) >= 2 => ~OverLimit(Join(Texts(current_chunk)))
    /\ SumAtoms(temp_chunk) >= 2 => ~OverLimit(Join(Texts(temp_chunk)))

\* a result that holds a chunk over a ceiling and a chunk of several atoms
SingleAtomOverLimitWitness ==
    /\ pc = "done"
    /\ \E i \in 1..Len(result) : OverLimit(result[i].text) /\ result[i].atoms = 1
    /\ \E j \in 1..Len(result) : result[j].atoms >= 2

\* C4: for a non-empty document the result is a non-empty list of non-empty
\* chunks.
NonDegenerate ==
    (Returned /\ content # <<>>) =>
        /\ result # <<>>
        /\ \A i \in 1..Len(result) : result[i].text # <<>>

\* the offsets of the document where a markdown level-2 heading starts
H2Offsets(s) == {i \in 0..Len(s) : MarkdownH2At(s, i)}

\* the offsets that delimit the heading-delimited spans
SpanEnds(s) == H2Offsets(s) \cup {0, Len(s)}

\* every heading-delimited span is within both ceilings
SpansFit ==
    \A a, b \in SpanEnds(content) :
        (a < b /\ ~\E c \in SpanEnds(content) : a < c /\ c < b)
            => ~OverLimit(Slice(content, a, b))

\* the offsets of the document where a chunk of the list ends
ChunkBoundaries(list) ==
    {Len(Join(Texts(SubSeq(list, 1, i)))) : i \in 0..Len(list)}

\* C5: with two markdown headings or more and every heading-delimited span
\* within both ceilings, the chunks returned partition the document and every
\* chunk boundary is a section boundary.
SectionPreservation ==
    (Returned /\ Cardinality(H2Offsets(content)) >= 2 /\ SpansFit) =>
        /\ Join(Texts(result)) = content
        /\ ChunkBoundaries(result) \subseteq SpanEnds(content)

\* such a document split into two chunks or more
SectionPreservationWitness ==
    /\ pc = "done"
    /\ Cardinality(H2Offsets(content)) >= 2
    /\ SpansFit
    /\ Len(result) >= 2

\* C6: splitting a returned chunk that is not a forced slice again, with the
\* same ceilings, returns that chunk alone.
IdempotentResplit ==
    Returned =>
        \A i \in 1..Len(result) :
            ~ForcedSlice(result[i]) =>
                LET again == SplitText(result[i].text, max_chars, max_bytes)
                IN  ~again.raised /\ Texts(again.chunks) = <<result[i].text>>

\* C7: the optimized list is returned exactly when the pass ran and left
\* strictly fewer chunks, the packed list otherwise; the result is never
\* longer than the packed list.
MergePassMonotone ==
    Returned =>
        /\ returned \in {"chunks", "optimized_chunks"}
        /\ returned = "optimized_chunks" <=>
               (Len(chunks) > 1 /\ Len(optimized_chunks) < Len(chunks))
        /\ returned = "optimized_chunks" => result = optimized_chunks
        /\ returned = "chunks" => result = chunks
        /\ Len(result) <= Len(chunks)

\* the pass ran over two chunks or more and the packed list was returned
MergePassMonotoneWitness ==
    /\ pc = "done"
    /\ Len(chunks) > 1
    /\ Len(optimized_chunks) = Len(chunks)
    /\ returned = "chunks"

\* C8: with a ceiling that is zero or negative nothing is scanned and no
\* file is written: split_file does not get past its start.
ConfigErrorBeforeScanning ==
    (max_chars <= 0 \/ max_bytes <= 0) =>
        /\ pc = "read"
        /\ sections = <<>>
        /\ output_files = <<>>

\* C9: the empty document raises nothing; its result is the empty list or
\* one empty chunk, the same for every pair of ceilings, and split_file
\* writes as many files as the result has chunks.
EmptyInput ==
    content = <<>> =>
        /\ pc # "raised"
        /\ Returned =>
               /\ Texts(result) \in {<<>>, << <<>> >>}
               /\ \A mc \in CharLimits, mb \in ByteLimits :
                      SplitText(content, mc, mb) = [raised |-> FALSE, chunks |-> result]
        /\ pc = "done" => Len(output_files) = Len(result)

\* the empty document has been split and written
EmptyInputWitness ==
    /\ pc = "done"
    /\ content = <<>>
    /\ Len(output_files) = Len(result)
    /\ Texts(result) = << <<>> >>

\* C10: a document within both ceilings comes back as one chunk, the
\* document itself.
WholeDocumentFits ==
    (Returned /\ ~OverLimit(content)) => Texts(result) = <<content>>

\* a document of several sections, within both ceilings, has been split
WholeDocumentFitsWitness ==
    /\ pc = "done"
    /\ ~OverLimit(content)
    /\ Len(SplitIntoSections(content)) >= 2
    /\ Len(result) = 1

\* C11: when every section fits on its own and every two adjacent sections
\* together are over a ceiling, the chunks returned are the sections, one
\* each, in order.
OneSectionPerChunk ==
    LET secs == Texts(SplitIntoSections(content))
    IN  (/\ Returned
         /\ \A i \in 1..Len(secs) : ~OverLimit(secs[i])
         /\ \A i \in 1..(Len(secs) - 1) : OverLimit(secs[i] \o secs[i + 1]))
            => Texts(result) = secs

\* three sections or more came back one per chunk
OneSectionPerChunkWitness ==
    LET secs == Texts(SplitIntoSections(content))
    IN  /\ pc = "done"
        /\ Len(secs) >= 3
        /\ \A i \in 1..Len(secs) : ~OverLimit(secs[i])
        /\ \A i \in 1..(Len(secs) - 1) : OverLimit(secs[i] \o secs[i + 1])
        /\ Len(result) = Len(secs)

\* the text holds a sentence end followed by whitespace
HasSentenceBreak(s) ==
    \E i \in 1..(Len(s) - 1) : IsSentenceEnd(s[i]) /\ IsSpace(s[i + 1])

\* the text holds a blank-line paragraph break
HasParagraphBreak(s) == \E i \in 1..(Len(s) - 1) : s[i] = NL /\ s[i + 1] = NL

\* the text holds a heading of either style
HasHeading(s) == \E i \in 0..Len(s) : MarkdownH2At(s, i) \/ HtmlH2At(s, i)

\* one section, longer than max_chars, without a paragraph break, with a
\* sentence break, every sentence within max_chars
SentenceCase ==
    /\ Len(SplitIntoSections(content)) = 1
    /\ Len(content) > max_chars
    /\ ~HasParagraphBreak(content)
    /\ HasSentenceBreak(content)
    /\ \A i \in 1..Len(SplitSentences(content)) :
           Len(SplitSentences(content)[i]) <= max_chars

\* every chunk but the last ends with a sentence end, and no chunk is longer
\* than max_chars
SentenceAligned ==
    /\ \A i \in 1..(Len(result) - 1) :
           /\ result[i].text # <<>>
           /\ IsSentenceEnd(result[i].text[Len(result[i].text)])
    /\ \A i \in 1..Len(result) : Len(result[i].text) <= max_chars

\* C12: such a section comes back as more than one chunk, every chunk but
\* the last ending right after a sentence end, none longer than max_chars.
SentenceFallback ==
    (Returned /\ SentenceCase) => (Len(result) > 1 /\ SentenceAligned)

\* ceil(a / b) for b > 0
CeilDiv(a, b) == (a + b - 1) \div b

\* one section, longer than max_chars, without any boundary, and
\* max_chars <= max_bytes // 2
FixedWidthCase ==
    /\ ~HasHeading(content)
    /\ Len(content) > max_chars
    /\ ~HasParagraphBreak(content)
    /\ ~HasSentenceBreak(content)
    /\ max_chars <= max_bytes \div 2

\* C13: such a section comes back as ceil(L / max_chars) chunks, the i-th
\* being the i-th run of max_chars characters of the section (the last one
\* the rest), each a forced slice of at most max_chars characters.
FixedWidthFallback ==
    FixedWidthCase =>
        /\ pc # "raised"
        /\ Returned =>
               /\ Len(result) = CeilDiv(Len(content), max_chars)
               /\ \A i \in 1..Len(result) :
                      /\ result[i].text =
                             Slice(content, (i - 1) * max_chars,
                                   Min(i * max_chars, Len(content)))
                      /\ ForcedSlice(result[i])
                      /\ Len(result[i].text) <= max_chars
                      /\ i < Len(result) => Len(result[i].text) = max_chars

\* such a section came back in slices, the last one shorter
FixedWidthFallbackWitness ==
    /\ pc = "done"
    /\ FixedWidthCase
    /\ Len(result) >= 2
    /\ Len(result[Len(result)].text) < max_chars

\* C17: the sections the scan returns, concatenated in order, are the
\* document, and the size recorded with each is its UTF-8 length.
SectionsPartition ==
    [][(pc = "read" /\ pc' = "pack") =>
           /\ Join(Texts(sections')) = content
           /\ \A i \in 1..Len(sections') :
                  sections'[i].size = ByteSize(sections'[i].text)]_vars

\* a document scanned into two sections or more, one with a multi-byte
\* character
SectionsPartitionWitness ==
    /\ pc = "pack"
    /\ Len(sections) >= 2
    /\ Join(Texts(sections)) = content
    /\ \E i \in 1..Len(sections) : sections[i].size > Len(sections[i].text)

\* C18: the atoms returned for an oversized section, concatenated in order,
\* are that section.
AtomsPartition ==
    (pc = "pack" /\ split_sections = <<>> /\ sections # <<>>
        /\ OverLimit(Head(sections).text)) =>
        LET r == SplitOversizedSection(Head(sections).text, max_chars, max_bytes)
        IN  ~r.raised => Join(Texts(r.parts)) = Head(sections).text

\* the open chunk with the atom appended is within both ceilings
FitsOpenChunk(atom) == ~OverLimit(Join(Texts(current_chunk)) \o atom.text)

TotalsOfOpenChunk ==
    /\ current_length = Len(Join(Texts(current_chunk)))
    /\ current_size = ByteSize(Join(Texts(current_chunk)))

\* C20: the running totals are the character and byte sums of the atoms in
\* the open chunk at every step; they do not decrease while the chunk stays
\* open, and are the new atom's own length and size when a chunk is opened.
RunningTotals ==
    /\ []TotalsOfOpenChunk
    /\ [][/\ (pc = "pack" /\ chunks' = chunks /\ current_chunk # <<>>) =>
                 /\ current_length' >= current_length
                 /\ current_size' >= current_size
          /\ (pc = "pack" /\ pc' = "pack" /\ chunks' # chunks) =>
                 /\ Len(current_chunk') = 1
                 /\ current_length' = Len(current_chunk'[1].text)
                 /\ current_size' = ByteSize(current_chunk'[1].text)]_vars

\* a chunk has been closed and the open one holds two atoms or more
RunningTotalsWitness ==
    /\ pc = "pack"
    /\ chunks # <<>>
    /\ Len(current_chunk) >= 2
    /\ current_length >= 2

\* the chunk files written so far are on the file system with their texts
ChunkFilesOnDisk ==
    \A i \in 1..Len(output_files) :
        [path |-> output_files[i].path, text |-> result[i].text] \in disk

\* C14: main returns 0 exactly when the input was read and every chunk file
\* was written, and 1 when reading, splitting or writing raised; whatever is
\* raised is caught, and main returns once.
CliExitCode ==
    /\ pc # "exit" => exit_code = NoExit
    /\ pc = "raised" => error \in {"read", "split", "write"} /\ ENABLED MainExcept
    /\ pc = "exit" =>
           /\ exit_code \in {0, 1}
           /\ exit_code = 0 <=>
                  /\ error = "none"
                  /\ returned # "none"
                  /\ Len(output_files) = Len(result)
                  /\ ChunkFilesOnDisk
           /\ exit_code = 1 <=> error \in {"read", "split", "write"}

\* main has returned 1 for a write that failed after a first chunk file
\* was written
CliExitCodeWitness ==
    /\ pc = "exit"
    /\ exit_code = 1
    /\ error = "write"
    /\ output_files # <<>>
    /\ Len(output_files) < Len(result)

\* the directory the part files belong in
ExpectedDir == IF output_dir \in {NoArg, ""} THEN input_path.dir ELSE output_dir

\* '{stem}_part{i}{suffix}' in that directory
ExpectedPath(i) ==
    [dir |-> ExpectedDir,
     name |-> Stem(input_path.name) \o <<"_", "p", "a", "r", "t">> \o Decimal(i)
              \o Suffix(input_path.name)]

\* the files of a file system at a path
FilesAt(files, path) == {f \in files : f.path = path}

\* C15: at every moment the paths collected are those of parts 1..k in
\* order, each in the resolved directory under '{stem}_part{i}{suffix}' and
\* holding the i-th chunk alone; the parts after k are as they were before
\* the run; split_file returns with k = K.
OutputNaming ==
    /\ Len(output_files) <= Len(result)
    /\ \A i \in 1..Len(output_files) :
           /\ output_files[i].path = ExpectedPath(i)
           /\ FilesAt(disk, ExpectedPath(i)) =
                  {[path |-> ExpectedPath(i), text |-> result[i].text]}
    /\ \A i \in (Len(output_files) + 1)..(Len(result) + 1) :
           FilesAt(disk, ExpectedPath(i)) = FilesAt(existing, ExpectedPath(i))
    /\ pc = "done" => Len(output_files) = Len(result)

\* two chunks or more were written next to an input with a suffix, the
\* first over a file left by an earlier run
OutputNamingWitness ==
    /\ pc = "done"
    /\ Len(output_files) >= 2
    /\ output_dir = NoArg
    /\ Suffix(input_path.name) # <<>>
    /\ FilesAt(existing, ExpectedPath(1)) # {}
    /\ FilesAt(disk, ExpectedPath(1)) # FilesAt(existing, ExpectedPath(1))

\* the offsets of the document where an HTML h2 tag starts, in either case
HtmlH2Offsets(s) == {i \in 0..Len(s) : HtmlH2At(s, i)}

\* the section boundaries the fallback order calls for
ExpectedBoundaries(s) ==
    IF H2Offsets(s) # {} THEN H2Offsets(s) ELSE HtmlH2Offsets(s)

\* the offsets of the document where a section of the list ends and another
\* starts
SectionBoundaries(list) ==
    {Len(Join(Texts(SubSeq(list, 1, i)))) : i \in 1..(Len(list) - 1)}

\* C16: the scan cuts the document at its markdown headings when it has
\* any, else at its HTML h2 tags of either case, else not at all.
SectioningFallback ==
    [][(pc = "read" /\ pc' = "pack") =>
           /\ Join(Texts(sections')) = content
           /\ Len(sections') = Cardinality(ExpectedBoundaries(content)) + 1
           /\ SectionBoundaries(sections') = ExpectedBoundaries(content)]_vars

\* a document with a markdown heading and an upper-case HTML tag, cut at
\* the markdown heading only
SectioningFallbackWitness ==
    /\ pc = "pack"
    /\ H2Offsets(content) # {}
    /\ \E i \in HtmlH2Offsets(content) : content[i + 2] = "H"
    /\ ~(HtmlH2Offsets(content) \subseteq H2Offsets(content))
    /\ Join(Texts(sections)) = content
    /\ SectionBoundaries(sections) = H2Offsets(content)

\* C24: the optimization pass leaves as many chunks as the packing loop
\* made, with the same texts, so the list returned is always the packed one.
ReoptimizationNoOp ==
    Returned =>
        /\ returned = "chunks"
        /\ result = chunks
        /\ Len(chunks) > 1 =>
               /\ Len(optimized_chunks) = Len(chunks)
               /\ Texts(optimized_chunks) = Texts(chunks)

\* the pass ran over three chunks or more, one of them of several atoms,
\* and changed nothing
ReoptimizationNoOpWitness ==
    /\ pc = "done"
    /\ Len(chunks) >= 3
    /\ \E i \in 1..Len(chunks) : chunks[i].atoms >= 2
    /\ Texts(optimized_chunks) = Texts(chunks)
    /\ result = chunks

\* the attempts of the current call that yielded entries
AttemptsWithEntries == {i \in 1..Len(fetch_log) : fetch_log[i].kind = "entries"}

\* what the attempts so far call for
RetryOutcome ==
    /\ Len(fetch_log) <= MaxRetries
    /\ attempt < MaxRetries
    /\ ch_pc = "fetch" => AttemptsWithEntries = {} /\ Len(fetch_log) = attempt
    /\ AttemptsWithEntries # {} =>
           /\ AttemptsWithEntries = {Len(fetch_log)}
           /\ page_result.kind = "returned"
           /\ page_result.videos = VideoUrls(fetch_log[Len(fetch_log)].entries)
           /\ page_result.next_page = fetch_log[Len(fetch_log)].continuation
    /\ page_result.kind = "VideoFetchError" <=>
           (Len(fetch_log) = MaxRetries /\ fetch_log[MaxRetries].kind = "raises")
    /\ (Len(fetch_log) = MaxRetries /\ fetch_log[MaxRetries].kind = "empty") =>
           /\ page_result.kind = "returned"
           /\ page_result.videos = <<>>
           /\ page_result.next_page = NoToken
    /\ page_result.kind = "returned" =>
           (AttemptsWithEntries # {} \/ Len(fetch_log) = MaxRetries)

\* C23: a call of get_videos_page makes at most three attempts, returns
\* the videos of the first attempt that yields entries, raises
\* VideoFetchError exactly when the third attempt raises, returns no videos
\* and no token when the third yields no entries, and always ends.
BoundedRetry ==
    /\ []RetryOutcome
    /\ (ch_pc = "call") ~> (ch_pc \in {"returned", "raised"})

\* the third attempt of a call for a second page yielded entries after two
\* that failed
BoundedRetryWitness ==
    /\ ch_pc = "returned"
    /\ pages = 2
    /\ Len(fetch_log) = MaxRetries
    /\ fetch_log[1].kind = "raises"
    /\ fetch_log[2].kind = "empty"
    /\ page_result.videos # <<>>

\* a download call has returned in the last turn of the loop
DownloadReturned == last_call.video # 0 /\ last_call.returned

\* C21: the status download returns is one of 'success', 'skipped',
\* 'disabled', 'not_found' and 'error': 'disabled' when the source raises
\* TranscriptsDisabled, 'not_found' when it raises NoTranscriptFound, 'error'
\* when it raises anything else.
DocumentedStatus ==
    DownloadReturned =>
        /\ last_call.status \in {"success", "skipped", "disabled", "not_found", "error"}
        /\ last_call.source = "TranscriptsDisabled" => last_call.status = "disabled"
        /\ last_call.source = "NoTranscriptFound" => last_call.status = "not_found"
        /\ last_call.source = "Exception" => last_call.status = "error"

\* the counters after one count moved from a status to its audio counter
MovedToAudio(st, from, to) == [st EXCEPT ![from] = @ - 1, ![to] = @ + 1]

\* C22: with --audio, a video whose transcript is disabled or not found has
\* its audio download attempted, and a download that succeeds moves one
\* count to the audio counter of that status.
AudioFallback ==
    (DownloadReturned /\ download_audio
       /\ last_call.source \in {"TranscriptsDisabled", "NoTranscriptFound"}) =>
        /\ last_call.audio_attempted
        /\ last_call.audio_ok =>
               stats = IF last_call.source = "TranscriptsDisabled"
                       THEN MovedToAudio(UpdateStats(last_call.stats_before, "disabled"),
                                         "disabled", "disabled_with_audio")
                       ELSE MovedToAudio(UpdateStats(last_call.stats_before, "not_found"),
                                         "not_found", "not_found_with_audio")

\* after a call that returned the file of the video exists; a call that
\* found the file returned 'skipped' without contacting the source and left
\* the file as it was
OutcomePersisted ==
    /\ DownloadReturned => last_call.video \in DOMAIN transcript_files
    /\ (last_call.video # 0 /\ last_call.file_before # Absent) =>
           /\ last_call.returned
           /\ last_call.status = "skipped"
           /\ ~last_call.contacted
           /\ transcript_files[last_call.video] = last_call.file_before

\* C25: once a download call has returned for a video its transcript file
\* exists, no step removes or rewrites a transcript file, and every call
\* that finds the file returns 'skipped' without contacting the source.
PersistedOutcomes ==
    /\ []OutcomePersisted
    /\ [][\A v \in DOMAIN transcript_files :
              /\ v \in DOMAIN transcript_files'
              /\ transcript_files'[v] = transcript_files[v]]_vars

\* in a second run a video whose first download met a transient error is
\* skipped
PersistedOutcomesWitness ==
    /\ runs = 2
    /\ DownloadReturned
    /\ last_call.status = "skipped"
    /\ ~last_call.contacted
    /\ "error" \in DOMAIN last_call.file_before
    /\ last_call.file_before.error = <<"timeout">>

\* C26: every record of successful_transcripts has a 'transcript' field.
OnlyTranscriptsMerged ==
    \A i \in 1..Len(successful_transcripts) :
        "transcript" \in DOMAIN successful_transcripts[i]

====
